---- MODULE Spec2Model ----
(***************************************************************************)
(* Model of the web search pipeline of src/search_pipeline.py:            *)
(* search_and_scrape (query validation, adaptive target, provider call,   *)
(* courtesy filter, concurrent fetch with the retry decorator, extraction, *)
(* scoring and the strict/relaxed selection).                              *)
(*                                                                         *)
(* Quality scores are integers in hundredths (0.3 is 30).  A query, a URL, *)
(* a title and a page text are records of the properties the code tests   *)
(* (substring and regex matches, lengths, word counts).                    *)
(***************************************************************************)
EXTENDS Integers, Sequences, FiniteSets, TLC

VARIABLES
    query,            \* the query argument (a record of Queries)
    opts,             \* the option arguments: max_results, min_results, min_words, min_quality_score, adaptive
    pc,               \* position of the run: "start", "search", "filter", "blocked", "gather", "returned", "raised"
    min_results,      \* the local min_results after line 333
    target_count,     \* the local target_count (lines 354-358)
    news_mode,        \* line 363
    spain_mode,       \* line 364
    provider,         \* the calls made to the search provider (a sequence of request records)
    provider_outcome, \* "none", "raised", "empty", "results"
    search_results,   \* the provider's result list
    allowed,          \* what the courtesy check returned for each search result
    valid_urls,       \* candidates that passed the filter, cut to candidate_limit
    fetch,            \* one task per candidate: the network outcomes of its attempts, done, result
    documents,        \* the documents collected by the loop of lines 433-504
    doc_src,          \* for each collected document, the index of its candidate in valid_urls
    result_docs,      \* the returned list
    phase,            \* "none", "empty", "strict", "relaxed": the return statement taken
    error,            \* message of the raised SearchPipelineError, "" when none
    policy,           \* _is_url_allowed alone: what the crawl-policy request of each checked URL ended with
    text_in,          \* _truncate_text alone: the text argument (a sequence of characters)
    cap_in,           \* _truncate_text alone: the max_chars argument
    text_out,         \* _truncate_text alone: << >> before the call, << result >> after it
    completed         \* the fetches alone: the candidates in the order in which their fetches ended

\* the variables of the helper functions checked on their own; a run of
\* search_and_scrape leaves them alone
helper_vars == << policy, text_in, cap_in, text_out, completed >>

vars == << query, opts, pc, min_results, target_count, news_mode, spain_mode, provider,
           provider_outcome, search_results, allowed, valid_urls, fetch, documents, doc_src,
           result_docs, phase, error, policy, text_in, cap_in, text_out, completed >>

-----------------------------------------------------------------------------
(* Bounds of the model *)

\* longest result list the provider returns
MaxProvider == 2
\* most candidates of a run when the selection is checked on its own, and
\* the value of the min_words option tried next to the default
MaxDocs == 3
LowMinWords == 50
\* longest result list when the fan-out is checked on its own
MaxListed == 6
\* most listings of one URL in the provider's result list
MaxListings == 4
\* largest value of the max_results and min_results options
MaxResultsOpt == 2
\* largest value of the two options when the target is computed on its own
MaxTargetOpt == 6
\* texts given to _truncate_text: up to MaxFill letters, then up to MaxTail
\* characters of any kind; caps up to MaxCap
MaxFill == 8
MaxTail == 4
MaxCap == 10

-----------------------------------------------------------------------------
(* Program constants *)

StopAfterAttempt == 3
DefaultMaxChars == 8000
MinExtractChars == 50
DefaultMinWords == 120
DefaultMinQuality == 30
DefaultMinResults == 2
CandidateMultiplier == 4
GeneralLimitFactor == 3
NewsLimitFactor == 5
RelWordsFloor == 60
RelQualityFloor == 15
RelQualityStep == 10
EllipsisLength == 3

-----------------------------------------------------------------------------
(* Small helpers *)

Min(a, b) == IF a <= b THEN a ELSE b
Max(a, b) == IF a >= b THEN a ELSE b
Range(s) == { s[i] : i \in 1..Len(s) }
SeqsUpTo(S, n) == UNION { [1..k -> S] : k \in 0..n }
Take(s, n) == SubSeq(s, 1, Min(n, Len(s)))
SetMax(S) == CHOOSE x \in S : \A y \in S : y <= x
SetMin(S) == CHOOSE x \in S : \A y \in S : x <= y

\* int(round(v / 100)) for v >= 0: Python rounds halves to the even neighbour
RoundHundredths(v) ==
    LET q == v \div 100
        r == v % 100
    IN  IF r < 50 THEN q
        ELSE IF r > 50 THEN q + 1
        ELSE IF q % 2 = 0 THEN q ELSE q + 1

-----------------------------------------------------------------------------
(* Queries: the properties of the query string that the code tests *)

Queries ==
    { [text |-> "", len |-> 0, blank |-> TRUE, sep |-> FALSE, temporal |-> FALSE,
       volatile |-> FALSE, entity_digit |-> FALSE, news_kw |-> FALSE, spain_kw |-> FALSE],
      [text |-> "   ", len |-> 3, blank |-> TRUE, sep |-> FALSE, temporal |-> FALSE,
       volatile |-> FALSE, entity_digit |-> FALSE, news_kw |-> FALSE, spain_kw |-> FALSE],
      [text |-> "what is 2+2", len |-> 11, blank |-> FALSE, sep |-> FALSE, temporal |-> FALSE,
       volatile |-> FALSE, entity_digit |-> FALSE, news_kw |-> FALSE, spain_kw |-> FALSE],
      [text |-> "latest news in Spain today", len |-> 26, blank |-> FALSE, sep |-> FALSE,
       temporal |-> TRUE, volatile |-> FALSE, entity_digit |-> FALSE, news_kw |-> TRUE,
       spain_kw |-> TRUE] }

\* line 326: not query or not query.strip()
IsEmptyQueryNoStrip(q) == q.len = 0
IsEmptyQuery(q) == q.len = 0 \/ q.blank

\* lines 335-352, in hundredths
EstimateQueryDifficulty(q) ==
    LET score == 20
                 + (IF q.len > 80 THEN 20 ELSE 0)
                 + (IF q.sep THEN 10 ELSE 0)
                 + (IF q.temporal THEN 25 ELSE 0)
                 + (IF q.volatile THEN 15 ELSE 0)
                 + (IF q.entity_digit THEN 10 ELSE 0)
    IN  Max(0, Min(100, score))

IsNewsQuery(q) == q.news_kw
IsSpainQuery(q) == q.spain_kw

\* lines 332-333
EffectiveMinResults(o) ==
    IF o.min_results = {} THEN Min(DefaultMinResults, o.max_results)
    ELSE CHOOSE n \in o.min_results : TRUE

\* lines 354-358
TargetCountFromZero(q, o, minr) ==
    IF o.adaptive
    THEN RoundHundredths(o.max_results * EstimateQueryDifficulty(q))
    ELSE o.max_results
TargetCountAlwaysAdaptive(q, o, minr) ==
    LET t == RoundHundredths(minr * 100 + (o.max_results - minr) * EstimateQueryDifficulty(q))
    IN  Max(minr, Min(o.max_results, t))
TargetCount(q, o, minr) ==
    IF o.adaptive
    THEN LET t == RoundHundredths(minr * 100 + (o.max_results - minr) * EstimateQueryDifficulty(q))
         IN  Max(minr, Min(o.max_results, t))
    ELSE o.max_results

Options ==
    [ max_results : 0..MaxResultsOpt,
      min_results : {{}} \cup { {n} : n \in 1..MaxResultsOpt },
      min_words : {DefaultMinWords},
      min_quality_score : {DefaultMinQuality},
      adaptive : BOOLEAN ]

-----------------------------------------------------------------------------
(* Search results: URL and title as the provider returns them *)

\* es: the host ends with .es; press: a name of _SPANISH_NEWS_DOMAINS is in the host;
\* hq / lq: a name of high_quality_domains / low_quality_indicators is in the host;
\* bbc: 'bbc.com' is in the host and '/mundo' is not in the URL;
\* ext: one of .pdf .doc .ppt .xls is in the URL;
\* title: "None" (the key holds None), "plain", "spain" (names a term of _SPAIN_GEO_TERMS)
\* or "clickbait" (holds a phrase of clickbait_indicators)
Pages ==
    { [url |-> "https://www.rtve.es/noticias/a", es |-> TRUE, press |-> TRUE, hq |-> FALSE,
       lq |-> FALSE, bbc |-> FALSE, ext |-> FALSE, title |-> "plain"],
      [url |-> "https://www.nature.com/articles/b", es |-> FALSE, press |-> FALSE, hq |-> TRUE,
       lq |-> FALSE, bbc |-> FALSE, ext |-> FALSE, title |-> "plain"],
      [url |-> "https://example.org/report.pdf", es |-> FALSE, press |-> FALSE, hq |-> FALSE,
       lq |-> FALSE, bbc |-> FALSE, ext |-> TRUE, title |-> "spain"],
      [url |-> "https://example.org/c", es |-> FALSE, press |-> FALSE, hq |-> FALSE,
       lq |-> FALSE, bbc |-> FALSE, ext |-> FALSE, title |-> "None"] }

\* a page of a domain of low_quality_indicators whose title names a Spanish
\* city: a candidate of the selection checked on its own
MorePages ==
    { [url |-> "https://es.quora.com/e", es |-> FALSE, press |-> FALSE, hq |-> FALSE,
       lq |-> TRUE, bbc |-> FALSE, ext |-> FALSE, title |-> "spain"] }

UrlProps(url) == CHOOSE p \in Pages \cup MorePages : p.url = url

\* line 406
HasSkippedExtensionNever(c) == FALSE
HasSkippedExtension(c) == c.ext

-----------------------------------------------------------------------------
(* Courtesy check, lines 65-86 *)

\* what the crawl-policy request of a URL ends with (rp.read(), line 81):
\* "allows" / "disallows": the file is read and its rules allow / disallow the URL;
\* "unreachable": urlopen raises (no route, refused, timed out);
\* "undecodable": the body is not UTF-8, decode raises;
\* "forbidden": HTTP 401 or 403; "client_error": another 4xx; "server_error": 5xx
RobotsOutcomes ==
    { "allows", "disallows", "unreachable", "undecodable", "forbidden", "client_error",
      "server_error" }

\* the policy server accepts the request and never answers: urlopen is called
\* with no timeout (line 81) and does not return
NeverAnswers == "never answers"

\* RobotFileParser.read as line 81 calls it: the parser's flags afterwards, or raised
ReadPolicy(outcome) ==
    LET unread == [raised |-> FALSE, disallow_all |-> FALSE, allow_all |-> FALSE,
                   last_checked |-> FALSE, permits |-> FALSE]
    IN  CASE outcome = "allows" -> [unread EXCEPT !.last_checked = TRUE, !.permits = TRUE]
          [] outcome = "disallows" -> [unread EXCEPT !.last_checked = TRUE]
          [] outcome = "unreachable" -> [unread EXCEPT !.raised = TRUE]
          [] outcome = "undecodable" -> [unread EXCEPT !.raised = TRUE]
          [] outcome = "forbidden" -> [unread EXCEPT !.disallow_all = TRUE]
          [] outcome = "client_error" -> [unread EXCEPT !.allow_all = TRUE]
          [] outcome = "server_error" -> unread

\* RobotFileParser.can_fetch as line 83 calls it
CanFetch(rp) ==
    IF rp.disallow_all THEN FALSE
    ELSE IF rp.allow_all THEN TRUE
    ELSE IF ~rp.last_checked THEN FALSE
    ELSE rp.permits

\* lines 75-86
IsUrlAllowed(outcome) ==
    LET rp == ReadPolicy(outcome)
    IN  IF rp.raised THEN TRUE ELSE CanFetch(rp)

-----------------------------------------------------------------------------
(* Page markup and its text *)

\* words: len(text.split()); chars: len(text) after whitespace is collapsed;
\* raw_chars: len(extracted.strip()); kw: number of quality_indicators in the text;
\* clickbait: a clickbait phrase is in the first 500 characters;
\* mentions: a term of _SPAIN_GEO_TERMS is in the first 500 characters;
\* ratio: _spanish_ratio in percent (rounded down);
\* last_end: rfind of the last sentence ending in the first 8000 characters (-1: none);
\* cut: the properties of the text cut there (when the text is longer than the cap)
TArticle ==
    [id |-> "article", words |-> 130, chars |-> 659, raw_chars |-> 661, kw |-> 4,
     clickbait |-> FALSE, mentions |-> FALSE, ratio |-> 0, last_end |-> 658, cut |-> << >>]
TBrief ==
    [id |-> "brief", words |-> 100, chars |-> 955, raw_chars |-> 957, kw |-> 4,
     clickbait |-> FALSE, mentions |-> FALSE, ratio |-> 5, last_end |-> 954, cut |-> << >>]
TTiny ==
    [id |-> "tiny", words |-> 7, chars |-> 40, raw_chars |-> 40, kw |-> 0,
     clickbait |-> FALSE, mentions |-> FALSE, ratio |-> 0, last_end |-> 39, cut |-> << >>]

TMemo ==
    [id |-> "memo", words |-> 45, chars |-> 310, raw_chars |-> 310, kw |-> 4,
     clickbait |-> FALSE, mentions |-> FALSE, ratio |-> 0, last_end |-> 309, cut |-> << >>]

\* blank: the markup is empty or whitespace; precision / recall: what
\* trafilatura.extract returns with favor_precision True / False (<< >> is None)
Htmls ==
    { [id |-> "h-article", blank |-> FALSE, precision |-> << TArticle >>,
       recall |-> << TArticle >>],
      [id |-> "h-brief", blank |-> FALSE, precision |-> << >>, recall |-> << TBrief >>],
      [id |-> "h-tiny", blank |-> FALSE, precision |-> << TTiny >>, recall |-> << TTiny >>] }

\* markup of a short page, for the selection checked on its own
MoreHtmls ==
    { [id |-> "h-memo", blank |-> FALSE, precision |-> << TMemo >>, recall |-> << TMemo >>] }

HtmlOf(id) == CHOOSE h \in Htmls \cup MoreHtmls : h.id = id

\* lines 89-133: << >> is None
ExtractText(html) ==
    IF html.blank THEN << >>
    ELSE LET first == html.precision
             extracted == IF first = << >> \/ first[1].raw_chars < MinExtractChars
                          THEN html.recall ELSE first
         IN  IF extracted # << >> /\ extracted[1].chars > MinExtractChars
             THEN extracted ELSE << >>

\* lines 35-62
TruncateText(text, max_chars) ==
    IF text.chars <= max_chars THEN text
    ELSE LET c == text.cut[1]
             n == IF text.last_end * 10 > max_chars * 7
                  THEN text.last_end + 1 ELSE max_chars + 3
         IN  [text EXCEPT !.chars = n, !.raw_chars = n, !.words = c.words, !.kw = c.kw,
                          !.clickbait = c.clickbait, !.mentions = c.mentions,
                          !.ratio = c.ratio]

-----------------------------------------------------------------------------
(* Quality score, in hundredths *)

\* lines 189-258 (title is a string here)
ScoreSourceQuality(url, title, content) ==
    LET u == UrlProps(url)
        score == 50
                 + (IF u.hq THEN 30 ELSE 0)
                 - (IF u.lq THEN 20 ELSE 0)
                 + (IF content.words > 500 THEN 10 ELSE 0)
                 + (IF content.words > 1000 THEN 10 ELSE 0)
                 + Min(content.kw * 5, 20)
                 - (IF title = "clickbait" \/ content.clickbait THEN 15 ELSE 0)
    IN  Max(0, Min(100, score))

\* lines 480 and 512-513
SpainishDomain(url) == UrlProps(url).es \/ UrlProps(url).press
MentionsSpain(title, text) == title = "spain" \/ text.mentions
IsRelevant(d) == SpainishDomain(d.url) \/ MentionsSpain(d.title, d.text)

\* lines 457-484: the adjustments made to the score of _score_source_quality
AdjustScore(score, url, title, text, news, spain) ==
    LET u == UrlProps(url)
        a == IF spain
             THEN (IF u.es THEN 10 ELSE 0) + (IF u.press THEN 25 ELSE 0)
                  - (IF u.bbc THEN 10 ELSE 0)
             ELSE 0
        b == IF news /\ spain /\ text.ratio >= 3 THEN 10
             ELSE IF news /\ spain /\ text.ratio < 1 THEN -5
             ELSE 0
        c == IF news /\ spain /\ ~(SpainishDomain(url) \/ MentionsSpain(title, text))
             THEN -30 ELSE 0
    IN  score + a + b + c

-----------------------------------------------------------------------------
(* Fetch Engine, lines 136-186 *)

\* what one GET of a page ends with
NetOutcomes ==
    { [kind |-> "ok", html |-> h.id] : h \in Htmls }
    \cup { [kind |-> k, html |-> ""] : k \in { "timeout", "connect", "status", "nonhtml" } }

\* lines 162-186: the body of fetch_html returns the markup or raises; every
\* exception of the request leaves the body as a SearchPipelineError
FetchHtmlBody(o) ==
    CASE o.kind = "ok" -> [raised |-> FALSE, type |-> "str", val |-> o.html]
      [] o.kind = "status" -> [raised |-> TRUE, type |-> "SearchPipelineError", val |-> "HTTP"]
      [] o.kind = "timeout" -> [raised |-> TRUE, type |-> "SearchPipelineError", val |-> "Timeout"]
      [] o.kind = "connect" ->
            [raised |-> TRUE, type |-> "SearchPipelineError", val |-> "Fetch error: connect"]
      [] o.kind = "nonhtml" ->
            [raised |-> TRUE, type |-> "SearchPipelineError", val |-> "Fetch error: Non-HTML content type"]

\* line 139: retry_if_exception_type((httpx.TimeoutException, httpx.ConnectError))
RetryIfAny(exc) == TRUE
RetryIf(exc) == exc.type \in { "TimeoutException", "ConnectError" }

NoResult == [raised |-> FALSE, type |-> "pending", val |-> ""]
NewTask == [net |-> << >>, done |-> FALSE, result |-> NoResult]

\* lines 136-140: the task after one more attempt that ends with o
AfterAttemptRetryAll(task, o) ==
    LET r == FetchHtmlBody(o)
        net == Append(task.net, o.kind)
    IN  IF r.raised /\ Len(net) <= StopAfterAttempt
        THEN [net |-> net, done |-> FALSE, result |-> NoResult]
        ELSE [net |-> net, done |-> TRUE, result |-> r]
AfterAttempt(task, o) ==
    LET r == FetchHtmlBody(o)
        net == Append(task.net, o.kind)
    IN  IF r.raised /\ RetryIf(r)
        THEN IF Len(net) >= StopAfterAttempt
             THEN [net |-> net, done |-> TRUE,
                   result |-> [raised |-> TRUE, type |-> "RetryError", val |-> r.val]]
             ELSE [net |-> net, done |-> FALSE, result |-> NoResult]
        ELSE [net |-> net, done |-> TRUE, result |-> r]

\* lines 428-431: asyncio.gather(..., return_exceptions=True) waits for every
\* task and hands back each task's own result, an exception as a value
GatherUntilFailure(tasks) ==
    LET failed == { i \in 1..Len(tasks) : tasks[i].result.raised }
    IN  [i \in 1..Len(tasks) |->
            IF failed # {} /\ i > SetMin(failed)
            THEN [raised |-> TRUE, type |-> "CancelledError", val |-> ""]
            ELSE tasks[i].result]
GatherWithoutWaiting(tasks) ==
    [i \in 1..Len(tasks) |->
        IF tasks[i].done THEN tasks[i].result
        ELSE [raised |-> TRUE, type |-> "CancelledError", val |-> ""]]
Gather(tasks) == [i \in 1..Len(tasks) |-> tasks[i].result]

-----------------------------------------------------------------------------
(* Collection loop, lines 433-504 *)

\* line 433: zip(fetch_tasks, fetch_results) goes through the n candidates in
\* the order of valid_urls
LoopOrderAsCompleted(n) == completed
LoopOrder(n) == [i \in 1..n |-> i]

\* what the loop does with candidate item and the outcome of its fetch:
\* "skip" (continue), "raise" (an exception leaves the loop) or "doc"
ProcessOne(item, res, o, news, spain) ==
    IF res.raised THEN [kind |-> "skip"]
    ELSE LET extracted == ExtractText(HtmlOf(res.val))
         IN  IF extracted = << >> THEN [kind |-> "skip"]
             ELSE IF item.title = "None" THEN [kind |-> "raise"]
             ELSE LET text == TruncateText(extracted[1], DefaultMaxChars)
                      q == AdjustScore(ScoreSourceQuality(item.url, item.title, text),
                                       item.url, item.title, text, news, spain)
                  IN  [kind |-> "doc",
                       doc |-> [url |-> item.url, title |-> item.title, text |-> text,
                                quality_score |-> q]]

-----------------------------------------------------------------------------
(* Selection, lines 506-545 *)

\* s sorted by descending key, elements of equal key in their order in s
\* (list.sort(key=..., reverse=True) is stable)
KeyGreater(a, b) == a[1] > b[1] \/ (a[1] = b[1] /\ a[2] > b[2])
StableSortDesc(s, key) ==
    LET n == Len(s)
        pos(i) == 1 + Cardinality({ j \in 1..n : KeyGreater(key[j], key[i])
                                               \/ (key[j] = key[i] /\ j < i) })
    IN  [p \in 1..n |-> s[CHOOSE i \in 1..n : pos(i) = p]]

\* line 518
SortByQuality(docs) ==
    StableSortDesc(docs, [i \in 1..Len(docs) |-> << docs[i].quality_score, 0 >>])

\* line 539
SortRelaxedAscending(docs) ==
    StableSortDesc(docs, [i \in 1..Len(docs) |-> << 0 - docs[i].quality_score, 0 - docs[i].text.chars >>])
SortRelaxedByQualityOnly(docs) == SortByQuality(docs)
SortRelaxed(docs) ==
    StableSortDesc(docs, [i \in 1..Len(docs) |-> << docs[i].quality_score, docs[i].text.chars >>])

\* line 507
StrictPass(d, o) == d.text.words >= o.min_words /\ d.quality_score >= o.min_quality_score

\* lines 526-527
RelMinWords(o) == Max(RelWordsFloor, (o.min_words * 8) \div 10)
RelMinQuality(o) == Max(RelQualityFloor, o.min_quality_score - RelQualityStep)

\* lines 531-538
RelaxedPassQualityOnly(d, o, news, spain) ==
    /\ d.quality_score >= RelMinQuality(o)
    /\ (news /\ spain) => IsRelevant(d)
RelaxedPassThresholdsOnly(d, o, news, spain) ==
    /\ d.text.words >= RelMinWords(o)
    /\ d.quality_score >= RelMinQuality(o)
RelaxedPassAlwaysRelevant(d, o, news, spain) ==
    /\ d.text.words >= RelMinWords(o)
    /\ d.quality_score >= RelMinQuality(o)
    /\ IsRelevant(d)
RelaxedPass(d, o, news, spain) ==
    /\ d.text.words >= RelMinWords(o)
    /\ d.quality_score >= RelMinQuality(o)
    /\ (news /\ spain) => IsRelevant(d)

\* lines 507-516
StrictDocs(docs, o, minr, news, spain) ==
    LET Strict(d) == StrictPass(d, o)
        strict == SelectSeq(docs, Strict)
        strict_relevant == SelectSeq(strict, IsRelevant)
    IN  IF news /\ spain /\ Len(strict_relevant) >= Max(minr, 1)
        THEN strict_relevant ELSE strict

\* line 542
FinalTargetNoCap(minr, target, n) == Max(minr, n)
FinalTarget(minr, target, n) == Max(minr, Min(target, n))

\* line 525: the documents that are not (equal to one) in strict_docs
RemainingAll(docs, strict_docs) == docs
Remaining(docs, strict_docs) ==
    LET NotStrict(d) == d \notin Range(strict_docs)
    IN  SelectSeq(docs, NotStrict)

\* lines 506-545: the returned list and the return statement that yields it
Select(docs, o, minr, target, news, spain) ==
    LET strict_docs == StrictDocs(docs, o, minr, news, spain)
    IN  IF Len(strict_docs) >= target
        THEN [docs |-> Take(SortByQuality(strict_docs), target), phase |-> "strict"]
        ELSE LET remaining == Remaining(docs, strict_docs)
                 Admit(d) == RelaxedPass(d, o, news, spain)
                 relaxed_docs == SortRelaxed(strict_docs \o SelectSeq(remaining, Admit))
             IN  [docs |-> Take(relaxed_docs, FinalTarget(minr, target, Len(relaxed_docs))),
                  phase |-> "relaxed"]

-----------------------------------------------------------------------------
(* search_and_scrape, lines 303-549 *)

Init ==
    /\ query \in Queries
    /\ opts \in Options
    /\ pc = "start"
    /\ min_results = 0
    /\ target_count = 0
    /\ news_mode = FALSE
    /\ spain_mode = FALSE
    /\ provider = << >>
    /\ provider_outcome = "none"
    /\ search_results = << >>
    /\ allowed = << >>
    /\ valid_urls = << >>
    /\ fetch = << >>
    /\ documents = << >>
    /\ doc_src = << >>
    /\ result_docs = << >>
    /\ phase = "none"
    /\ error = ""
    /\ policy = << >>
    /\ text_in = << >>
    /\ cap_in = 0
    /\ text_out = << >>
    /\ completed = << >>

\* lines 326-327: the empty query is rejected
RejectEmptyQuery ==
    /\ pc = "start"
    /\ IsEmptyQuery(query)
    /\ pc' = "raised"
    /\ error' = "Query cannot be empty"
    /\ UNCHANGED << helper_vars, query, opts, min_results, target_count, news_mode, spain_mode, provider,
                    provider_outcome, search_results, allowed, valid_urls, fetch, documents,
                    doc_src, result_docs, phase >>

\* lines 329-359: min_results and target_count
Prepare ==
    /\ pc = "start"
    /\ ~IsEmptyQuery(query)
    /\ min_results' = EffectiveMinResults(opts)
    /\ target_count' = TargetCount(query, opts, EffectiveMinResults(opts))
    /\ pc' = "search"
    /\ UNCHANGED << helper_vars, query, opts, news_mode, spain_mode, provider, provider_outcome,
                    search_results, allowed, valid_urls, fetch, documents, doc_src,
                    result_docs, phase, error >>

\* lines 363-388: the request sent to the provider
ProviderRequest(q, o) ==
    LET news == IsNewsQuery(q)
        spain == IsSpainQuery(q)
    IN  [endpoint |-> IF news THEN "news" ELSE "text",
         text |-> q.text,
         spain_appended |-> news /\ ~spain,
         max_results |-> o.max_results * CandidateMultiplier,
         region |-> IF spain THEN "es-es" ELSE "wt-wt",
         timelimit |-> IF news THEN "d" ELSE "None"]

\* lines 361-388 and 547-549: the provider call raises
SearchRaises ==
    /\ pc = "search"
    /\ news_mode' = IsNewsQuery(query)
    /\ spain_mode' = IsSpainQuery(query)
    /\ provider' = Append(provider, ProviderRequest(query, opts))
    /\ provider_outcome' = "raised"
    /\ pc' = "raised"
    /\ error' = "Search failed"
    /\ UNCHANGED << helper_vars, query, opts, min_results, target_count, search_results, allowed, valid_urls,
                    fetch, documents, doc_src, result_docs, phase >>

\* lines 361-394: the provider call returns a list
SearchReturns ==
    /\ pc = "search"
    /\ news_mode' = IsNewsQuery(query)
    /\ spain_mode' = IsSpainQuery(query)
    /\ provider' = Append(provider, ProviderRequest(query, opts))
    /\ \E results \in SeqsUpTo(Pages, MaxProvider) :
          /\ search_results' = results
          /\ IF results = << >>
             THEN /\ provider_outcome' = "empty"
                  /\ pc' = "returned"
                  /\ phase' = "empty"
             ELSE /\ provider_outcome' = "results"
                  /\ pc' = "filter"
                  /\ phase' = phase
    /\ UNCHANGED << helper_vars, query, opts, min_results, target_count, allowed, valid_urls, fetch,
                    documents, doc_src, result_docs, error >>

\* line 416
CandidateLimitAll(n, o, news) == n
CandidateLimit(n, o, news) ==
    Min(n, IF news THEN o.max_results * NewsLimitFactor ELSE o.max_results * GeneralLimitFactor)

\* what _is_url_allowed returns, over every outcome of the policy request
Verdicts == { IsUrlAllowed(o) : o \in RobotsOutcomes }

\* lines 396-424: courtesy check and extension filter of every result, then
\* one fetch task per remaining candidate. The policy requests of the first
\* `answered` results end, each with any outcome; when that is not all of
\* them, the next one never answers and the loop does not go past it
FilterCandidates ==
    /\ pc = "filter"
    /\ \E answered \in 0..Len(search_results) :
       \E verdict \in [1..answered -> Verdicts] :
          LET Keep(i) == verdict[i] /\ ~HasSkippedExtension(search_results[i])
              kept == SelectSeq([i \in 1..Len(search_results) |-> i], Keep)
              valid == [k \in 1..Len(kept) |->
                          [url |-> search_results[kept[k]].url,
                           title |-> search_results[kept[k]].title]]
              cut == Take(valid, CandidateLimit(Len(valid), opts, news_mode))
          IN  /\ allowed' = verdict
              /\ IF answered < Len(search_results)
                 THEN /\ pc' = "blocked"
                      /\ UNCHANGED << valid_urls, fetch, phase >>
                 ELSE IF valid = << >>
                 THEN /\ pc' = "returned"
                      /\ phase' = "empty"
                      /\ UNCHANGED << valid_urls, fetch >>
                 ELSE /\ valid_urls' = cut
                      /\ fetch' = [i \in 1..Len(cut) |-> NewTask]
                      /\ pc' = "gather"
                      /\ phase' = phase
    /\ UNCHANGED << helper_vars, query, opts, min_results, target_count, news_mode, spain_mode, provider,
                    provider_outcome, search_results, documents, doc_src, result_docs, error >>

\* lines 136-186 under asyncio.gather (line 428): one attempt of the fetch of candidate i
FetchAttempt(i) ==
    /\ pc = "gather"
    /\ ~fetch[i].done
    /\ \E o \in NetOutcomes : fetch' = [fetch EXCEPT ![i] = AfterAttempt(fetch[i], o)]
    /\ UNCHANGED << helper_vars, query, opts, pc, min_results, target_count, news_mode, spain_mode,
                    provider, provider_outcome, search_results, allowed, valid_urls, documents,
                    doc_src, result_docs, phase, error >>

\* lines 428-549: the await of line 428 ends when gather holds the outcome of
\* every task; the loop builds the documents and the selection returns, or an
\* exception of the loop becomes a SearchPipelineError
Aggregate ==
    /\ pc = "gather"
    /\ \A i \in 1..Len(fetch) : Gather(fetch)[i] # NoResult
    /\ LET n == Len(valid_urls)
           fetch_results == Gather(fetch)
           out == [i \in 1..n |->
                     ProcessOne(valid_urls[i], fetch_results[i], opts, news_mode, spain_mode)]
           raising == { i \in 1..n : out[i].kind = "raise" }
           stop == IF raising = {} THEN n + 1
                   ELSE CHOOSE i \in raising : \A j \in raising : i <= j
           IsDoc(i) == i < stop /\ out[i].kind = "doc"
           src == SelectSeq(LoopOrder(n), IsDoc)
           docs == [k \in 1..Len(src) |-> out[src[k]].doc]
           sel == Select(docs, opts, min_results, target_count, news_mode, spain_mode)
       IN  /\ documents' = docs
           /\ doc_src' = src
           /\ IF raising # {}
              THEN /\ pc' = "raised"
                   /\ error' = "Search failed"
                   /\ UNCHANGED << result_docs, phase >>
              ELSE /\ pc' = "returned"
                   /\ result_docs' = sel.docs
                   /\ phase' = sel.phase
                   /\ error' = error
    /\ UNCHANGED << helper_vars, query, opts, min_results, target_count, news_mode, spain_mode, provider,
                    provider_outcome, search_results, allowed, valid_urls, fetch >>

Next ==
    \/ RejectEmptyQuery
    \/ Prepare
    \/ SearchRaises
    \/ SearchReturns
    \/ FilterCandidates
    \/ \E i \in 1..Len(fetch) : FetchAttempt(i)
    \/ Aggregate

Spec == Init /\ [][Next]_vars

-----------------------------------------------------------------------------
(* Properties *)

NonEmptyQuery == ~IsEmptyQuery(query)
Returned == pc = "returned"
RegionNewsMode == news_mode /\ spain_mode
TransientKinds == { "timeout", "connect" }
TerminalKinds == { "status", "nonhtml" }

\* C1: for a non-empty query, when the provider call raises or returns no
\* results, search_and_scrape returns an empty list and raises nothing
C1_ProviderFailureReturnsEmpty ==
    (NonEmptyQuery /\ provider_outcome \in { "raised", "empty" })
        => (Returned /\ result_docs = << >> /\ error = "")

\* C2: once the provider has returned results, no outcome of a candidate
\* (fetch failure, empty extraction, exception while it is scored) makes
\* search_and_scrape raise
C2_CandidateFailuresNeverRaise ==
    (NonEmptyQuery /\ provider_outcome = "results") => pc # "raised"

\* C3: in region-specific and time-sensitive mode every returned document is
\* regionally relevant (regional domain, or the region named in title or text)
C3_ReturnedRegionallyRelevant ==
    (Returned /\ RegionNewsMode)
        => \A i \in 1..Len(result_docs) : IsRelevant(result_docs[i])

\* the relaxed word and quality thresholds alone
RelaxedThresholds(d) ==
    d.text.words >= RelMinWords(opts) /\ d.quality_score >= RelMinQuality(opts)
PassingThresholds ==
    { k \in 1..Len(documents) : StrictPass(documents[k], opts) \/ RelaxedThresholds(documents[k]) }
PassingAndRelevant ==
    { k \in PassingThresholds : RegionNewsMode => IsRelevant(documents[k]) }

\* C4 as stated: with minResults <= maxResults, when at least minResults
\* collected documents pass the relaxed (or the strict) word and quality
\* thresholds, at least minResults documents are returned
C4_MinimumYieldThresholdsOnly ==
    (Returned /\ phase # "empty" /\ min_results <= opts.max_results
       /\ Cardinality(PassingThresholds) >= min_results)
        => Len(result_docs) >= min_results

\* C4 amended: with minResults <= maxResults, when at least minResults
\* collected documents pass the relaxed (or the strict) thresholds and are
\* regionally relevant where the mode requires it, at least minResults
\* documents are returned
C4_MinimumYield ==
    (Returned /\ phase # "empty" /\ min_results <= opts.max_results
       /\ Cardinality(PassingAndRelevant) >= min_results)
        => Len(result_docs) >= min_results

C4_Witness ==
    /\ Returned /\ phase = "relaxed" /\ RegionNewsMode
    /\ min_results >= 1 /\ min_results <= opts.max_results
    /\ Cardinality(PassingAndRelevant) >= min_results
    /\ Cardinality(PassingThresholds) > Cardinality(PassingAndRelevant)
    /\ Len(result_docs) = min_results

\* C5 as stated: for every value of the options, the number of returned
\* documents is at most target_count
C5_AtMostTargetAnyOptions ==
    Returned => Len(result_docs) <= target_count

\* C5 amended: when adaptive is true or minResults <= maxResults (options not
\* negative), the number of returned documents is at most target_count
C5_AtMostTarget ==
    (Returned /\ (opts.adaptive \/ min_results <= opts.max_results))
        => Len(result_docs) <= target_count

C5_Witness ==
    /\ Returned /\ phase = "relaxed"
    /\ min_results <= opts.max_results
    /\ target_count >= 1
    /\ Cardinality(PassingThresholds) > target_count
    /\ Len(result_docs) = target_count

\* C6: the returned list is in non-increasing order of quality score; in the
\* relaxed phase documents of equal score are in non-increasing order of text
\* length
C6_SortedByQuality ==
    Returned =>
        \A i \in 1..(Len(result_docs) - 1) :
            /\ result_docs[i].quality_score >= result_docs[i + 1].quality_score
            /\ (phase = "relaxed"
                  /\ result_docs[i].quality_score = result_docs[i + 1].quality_score)
                => result_docs[i].text.chars >= result_docs[i + 1].text.chars

C6_Witness ==
    /\ Returned /\ phase = "relaxed" /\ Len(result_docs) = 2
    /\ Len(documents) = 2
    /\ documents[1].quality_score = documents[2].quality_score
    /\ documents[1].text.chars < documents[2].text.chars
    /\ result_docs = << documents[2], documents[1] >>

\* C7: the quality score of every returned document is within [0, 1]
C7_ScoreWithinUnitInterval ==
    Returned =>
        \A i \in 1..Len(result_docs) :
            result_docs[i].quality_score >= 0 /\ result_docs[i].quality_score <= 100

\* C8: a fetch whose attempt ended with a timeout or a connection error, with
\* fewer than 3 attempts made, is not over: another attempt follows
C8_TransientFailureRetried ==
    \A i \in 1..Len(fetch) :
        (Len(fetch[i].net) >= 1
           /\ fetch[i].net[Len(fetch[i].net)] \in TransientKinds
           /\ Len(fetch[i].net) < StopAfterAttempt)
            => ~fetch[i].done

\* the requests of the run that went to url, as pairs << candidate, attempt >>
RequestsTo(url) ==
    { r \in (1..Len(fetch)) \X (1..StopAfterAttempt) :
        valid_urls[r[1]].url = url /\ r[2] <= Len(fetch[r[1]].net) }

\* C9 as stated: an attempt that ends with an HTTP error status or a non-HTML
\* content type is the only request its URL gets in the run; the failure is
\* the outcome held for the candidate and the candidate yields no document
C9_TerminalFailureUrlRequestedOnce ==
    \A i \in 1..Len(fetch) :
        \A k \in 1..Len(fetch[i].net) :
            fetch[i].net[k] \in TerminalKinds =>
                /\ Cardinality(RequestsTo(valid_urls[i].url)) = 1
                /\ fetch[i].done
                /\ fetch[i].result.raised
                /\ i \notin Range(doc_src)

\* C9 amended: an attempt that ends with an HTTP error status or a non-HTML
\* content type is the only request of its candidate (of that call of
\* fetch_html); the failure is the outcome held for the candidate (an
\* exception value, not a raised error) and the candidate yields no document
C9_TerminalFailureNotRetried ==
    \A i \in 1..Len(fetch) :
        \A k \in 1..Len(fetch[i].net) :
            fetch[i].net[k] \in TerminalKinds =>
                /\ Len(fetch[i].net) = 1
                /\ fetch[i].done
                /\ fetch[i].result.raised
                /\ fetch[i].result.type = "SearchPipelineError"
                /\ i \notin Range(doc_src)

C9_Witness ==
    /\ Returned /\ Len(fetch) = 2 /\ documents = << >>
    /\ valid_urls[1].url # valid_urls[2].url
    /\ \E i \in 1..Len(fetch) : fetch[i].net = << "status" >>
    /\ \E i \in 1..Len(fetch) : fetch[i].net = << "nonhtml" >>

\* C10: for an empty or whitespace-only query the run raises the empty-query
\* error and issues no provider call, no crawl-policy request and no fetch
C10_EmptyQueryNoNetwork ==
    (query.len = 0 \/ query.blank) =>
        /\ pc \in { "start", "raised" }
        /\ pc = "raised" => error = "Query cannot be empty"
        /\ provider = << >>
        /\ allowed = << >>
        /\ fetch = << >>

C10_Witness ==
    pc = "raised" /\ query.len > 0 /\ query.blank /\ error = "Query cannot be empty"

Finished == pc \in { "returned", "raised" }

\* no candidate of the run made the loop of lines 433-504 raise: each one was
\* skipped (failed fetch, empty extraction) or became a document
NoScoringException ==
    \A i \in 1..Len(fetch) :
        fetch[i].done =>
            (fetch[i].result.raised
               \/ ExtractText(HtmlOf(fetch[i].result.val)) = << >>
               \/ valid_urls[i].title # "None")

\* no collected document passes the strict filter or is admitted by the relaxed one
NoDocumentPasses ==
    \A k \in 1..Len(documents) :
        /\ ~StrictPass(documents[k], opts)
        /\ (~RelaxedThresholds(documents[k])
              \/ (RegionNewsMode /\ ~IsRelevant(documents[k])))

FetchedAndExtracted(i) ==
    /\ fetch[i].done
    /\ ~fetch[i].result.raised
    /\ ExtractText(HtmlOf(fetch[i].result.val)) # << >>

C20_FetchOnlyAfterFilter ==
    \A i \in 1..Len(fetch) :
        /\ Len(allowed) = Len(search_results)
        /\ ~UrlProps(valid_urls[i].url).ext
        /\ \E j \in 1..Len(search_results) :
              search_results[j].url = valid_urls[i].url /\ allowed[j]

C20_Witness ==
    /\ Len(search_results) = 2 /\ Len(fetch) = 1
    /\ Len(fetch[1].net) >= 1
    /\ UrlProps(search_results[1].url).ext
    /\ allowed = << TRUE, TRUE >>

\* C21: the selection starts only after every fetch of the run has its
\* outcome: while a fetch is in flight the run is still waiting at gather, no
\* document is collected and nothing is returned
C21_SelectionAfterAllFetches ==
    \A i \in 1..Len(fetch) :
        ~fetch[i].done =>
            /\ pc = "gather"
            /\ documents = << >>
            /\ result_docs = << >>
            /\ phase = "none"

C21_Witness ==
    /\ Returned /\ Len(fetch) = 2 /\ Len(result_docs) = 1
    /\ fetch[1].net = << "timeout" >>
    /\ fetch[2].net = << "ok" >>
    /\ doc_src = << 2 >>

\* the returned documents of URL u, and the candidates (listings) of URL u
ReturnedOf(u) == { i \in 1..Len(result_docs) : result_docs[i].url = u }
ListingsOf(u) == { j \in 1..Len(valid_urls) : valid_urls[j].url = u }

\* C30 as stated: the returned list never holds two documents of the same
\* URL, also when the provider's list holds the same URL more than once
C30_NoUrlReturnedTwice ==
    Returned =>
        \A i, j \in 1..Len(result_docs) :
            result_docs[i].url = result_docs[j].url => i = j

\* C30 amended: each candidate yields at most one document, so the returned
\* list holds at most as many documents of a URL as the candidate list holds
\* listings of it, and none twice when no URL is listed twice
C30_OneDocumentPerCandidate ==
    /\ \A k, l \in 1..Len(doc_src) : doc_src[k] = doc_src[l] => k = l
    /\ \A k \in 1..Len(doc_src) : documents[k].url = valid_urls[doc_src[k]].url
    /\ Returned =>
          \A i \in 1..Len(result_docs) :
              Cardinality(ReturnedOf(result_docs[i].url))
                  <= Cardinality(ListingsOf(result_docs[i].url))

C30_Witness ==
    /\ Returned /\ Len(valid_urls) = 2
    /\ valid_urls[1].url = valid_urls[2].url
    /\ doc_src = << 1, 2 >>
    /\ Len(result_docs) = 2
    /\ result_docs[1].url = result_docs[2].url

\* the event loop runs a step whenever one can be taken
LiveSpec == Spec /\ WF_vars(Next)

\* C17: every invocation of search_and_scrape eventually returns a list or
\* raises, whatever the provider, the policy servers and the web servers do
C17_EventuallyReturns == <>Finished

-----------------------------------------------------------------------------
(* The target computed on its own: lines 326-359 for every kind of query *)

\* a query of every combination of the properties the estimator and the mode
\* tests read, next to the queries of Queries
QueryShapes ==
    [ text : {"*"}, len : {11, 90}, blank : {FALSE}, sep : BOOLEAN, temporal : BOOLEAN,
      volatile : BOOLEAN, entity_digit : BOOLEAN, news_kw : BOOLEAN, spain_kw : BOOLEAN ]

TargetOptions ==
    [ max_results : 0..MaxTargetOpt,
      min_results : {{}} \cup { {n} : n \in 0..MaxTargetOpt },
      min_words : {DefaultMinWords},
      min_quality_score : {DefaultMinQuality},
      adaptive : BOOLEAN ]

\* nothing of the run has happened yet
NothingDone ==
    /\ pc = "start"
    /\ min_results = 0
    /\ target_count = 0
    /\ news_mode = FALSE
    /\ spain_mode = FALSE
    /\ provider = << >>
    /\ provider_outcome = "none"
    /\ search_results = << >>
    /\ allowed = << >>
    /\ valid_urls = << >>
    /\ fetch = << >>
    /\ documents = << >>
    /\ doc_src = << >>
    /\ result_docs = << >>
    /\ phase = "none"
    /\ error = ""

HelpersIdle ==
    /\ policy = << >>
    /\ text_in = << >>
    /\ cap_in = 0
    /\ text_out = << >>
    /\ completed = << >>

InitTarget ==
    /\ query \in Queries \cup QueryShapes
    /\ opts \in TargetOptions
    /\ NothingDone
    /\ HelpersIdle

NextTarget ==
    \/ RejectEmptyQuery
    \/ Prepare

SpecTarget == InitTarget /\ [][NextTarget]_vars

TargetComputed == pc = "search"

\* C12: in adaptive mode, with min_results <= max_results, the computed
\* target_count is at least min_results and at most max_results
C12_TargetWithinBounds ==
    (TargetComputed /\ opts.adaptive /\ min_results <= opts.max_results)
        => (min_results <= target_count /\ target_count <= opts.max_results)

C12_Witness ==
    /\ TargetComputed /\ opts.adaptive
    /\ opts.min_results # {}
    /\ min_results < target_count /\ target_count < opts.max_results

\* C16: for "latest news in Spain today" with max_results 6, min_results 2 and
\* adaptive mode, the run takes the news endpoint and the Spanish region, and
\* target_count is closer to 6 than to 2 (at least 5)
C16_SpainNewsTargetNearMax ==
    (TargetComputed /\ query.text = "latest news in Spain today"
       /\ opts.max_results = 6 /\ opts.min_results = {2} /\ opts.adaptive)
        => /\ ProviderRequest(query, opts).endpoint = "news"
           /\ ProviderRequest(query, opts).region = "es-es"
           /\ target_count >= 5

\* C19: with adaptive false, target_count is max_results whatever the query
C19_NonAdaptiveTargetIsMax ==
    (TargetComputed /\ ~opts.adaptive) => target_count = opts.max_results

C19_Witness ==
    /\ TargetComputed /\ ~opts.adaptive
    /\ target_count = opts.max_results
    /\ TargetCountAlwaysAdaptive(query, opts, min_results) < opts.max_results

-----------------------------------------------------------------------------
(* The courtesy check on its own: lines 398-403 call _is_url_allowed for one *)
(* search result after the other                                            *)

InitCourtesy ==
    /\ query \in { q \in Queries : ~IsEmptyQuery(q) }
    /\ opts = [max_results |-> MaxResultsOpt, min_results |-> {},
               min_words |-> DefaultMinWords, min_quality_score |-> DefaultMinQuality,
               adaptive |-> TRUE]
    /\ pc = "filter"
    /\ min_results = EffectiveMinResults(opts)
    /\ target_count = TargetCount(query, opts, EffectiveMinResults(opts))
    /\ news_mode = IsNewsQuery(query)
    /\ spain_mode = IsSpainQuery(query)
    /\ provider = << ProviderRequest(query, opts) >>
    /\ provider_outcome = "results"
    /\ search_results \in SeqsUpTo(Pages, MaxProvider) \ { << >> }
    /\ allowed = << >>
    /\ valid_urls = << >>
    /\ fetch = << >>
    /\ documents = << >>
    /\ doc_src = << >>
    /\ result_docs = << >>
    /\ phase = "none"
    /\ error = ""
    /\ HelpersIdle

\* lines 65-86 for the next search result
CourtesyCheck ==
    /\ pc = "filter"
    /\ Len(allowed) < Len(search_results)
    /\ \E o \in RobotsOutcomes :
          /\ policy' = Append(policy, o)
          /\ allowed' = Append(allowed, IsUrlAllowed(o))
    /\ UNCHANGED << query, opts, pc, min_results, target_count, news_mode, spain_mode,
                    provider, provider_outcome, search_results, valid_urls, fetch, documents,
                    doc_src, result_docs, phase, error, text_in, cap_in, text_out, completed >>

NextCourtesy == CourtesyCheck

SpecCourtesy == InitCourtesy /\ [][NextCourtesy]_vars

\* the policy file was not retrieved or not parsed
PolicyUnavailable ==
    { "unreachable", "undecodable", "forbidden", "client_error", "server_error" }

\* C13: whenever the policy file cannot be retrieved (network error, timeout,
\* any HTTP error status, 401/403 included) or parsed, _is_url_allowed returns
\* allowed
C13_CourtesyCheckFailOpen ==
    \A i \in 1..Len(policy) : policy[i] \in PolicyUnavailable => allowed[i]

-----------------------------------------------------------------------------
(* _truncate_text on its own, lines 35-62, on texts as character sequences *)

\* "a": a letter; "." and "!": sentence endings ("!" stands for '?' as well);
\* " ": a space; "NL": a newline
TextAlphabet == { "a", ".", "!", " ", "NL" }
IsSpace(c) == c \in { " ", "NL" }

\* str.strip()
Strip(s) ==
    LET solid == { i \in 1..Len(s) : ~IsSpace(s[i]) }
    IN  IF solid = {} THEN << >> ELSE SubSeq(s, SetMin(solid), SetMax(solid))

\* truncated.rfind(ending) for a one-character ending and for the blank line
\* '\n\n': the index, counted from 0, of the last occurrence, -1 when none
RFindChar(s, c) ==
    LET at == { i \in 1..Len(s) : s[i] = c }
    IN  IF at = {} THEN -1 ELSE SetMax(at) - 1
RFindBlankLine(s) ==
    LET at == { i \in 1..(Len(s) - 1) : s[i] = "NL" /\ s[i + 1] = "NL" }
    IN  IF at = {} THEN -1 ELSE SetMax(at) - 1

\* lines 53-57
LastSentenceEnd(truncated) ==
    Max(RFindChar(truncated, "."), Max(RFindChar(truncated, "!"), RFindBlankLine(truncated)))

Ellipsis == << ".", ".", "." >>

\* lines 46-62; line 59 compares with max_chars * 0.7, a float that equals
\* 7 * max_chars / 10 for every cap up to MaxCap
TruncateStringNoWindow(text, max_chars) ==
    IF Len(text) <= max_chars THEN text
    ELSE LET truncated == SubSeq(text, 1, max_chars)
             last_sentence_end == LastSentenceEnd(text)
         IN  IF last_sentence_end * 10 > max_chars * 7
             THEN Strip(SubSeq(text, 1, last_sentence_end + 1))
             ELSE Strip(truncated) \o Ellipsis
TruncateString(text, max_chars) ==
    IF Len(text) <= max_chars THEN text
    ELSE LET truncated == SubSeq(text, 1, max_chars)
             last_sentence_end == LastSentenceEnd(truncated)
         IN  IF last_sentence_end * 10 > max_chars * 7
             THEN Strip(SubSeq(truncated, 1, last_sentence_end + 1))
             ELSE Strip(truncated) \o Ellipsis

Fill(m) == [i \in 1..m |-> "a"]
Texts == { Fill(m) \o t : m \in 0..MaxFill, t \in SeqsUpTo(TextAlphabet, MaxTail) }

InitTruncate ==
    /\ query \in { q \in Queries : q.text = "what is 2+2" }
    /\ opts = [max_results |-> MaxResultsOpt, min_results |-> {},
               min_words |-> DefaultMinWords, min_quality_score |-> DefaultMinQuality,
               adaptive |-> TRUE]
    /\ NothingDone
    /\ policy = << >>
    /\ text_in \in Texts
    /\ cap_in \in 0..MaxCap
    /\ text_out = << >>
    /\ completed = << >>

\* one call of _truncate_text(text_in, cap_in)
Truncate ==
    /\ text_out = << >>
    /\ text_out' = << TruncateString(text_in, cap_in) >>
    /\ UNCHANGED << query, opts, pc, min_results, target_count, news_mode, spain_mode,
                    provider, provider_outcome, search_results, allowed, valid_urls, fetch,
                    documents, doc_src, result_docs, phase, error, policy, text_in, cap_in,
                    completed >>

NextTruncate == Truncate

SpecTruncate == InitTruncate /\ [][NextTruncate]_vars

Truncated == text_out # << >>

\* C14: the result of _truncate_text(text, C) is at most C + 3 characters long,
\* and a text of at most C characters is returned unchanged
C14_TruncatedLengthBound ==
    Truncated =>
        /\ Len(text_out[1]) <= cap_in + EllipsisLength
        /\ Len(text_in) <= cap_in => text_out[1] = text_in

C14_Witness ==
    /\ Truncated /\ Len(text_in) > cap_in /\ cap_in > 0
    /\ Len(text_out[1]) = cap_in + EllipsisLength

\* the positions, counted from 0, of the sentence boundaries within the last
\* 30% of the first C characters: 0.7 * C <= p <= C - 1
BoundariesInLastPart ==
    { p \in 0..(cap_in - 1) :
        /\ p * 10 >= cap_in * 7
        /\ \/ text_in[p + 1] \in { ".", "!" }
           \/ (p + 2 <= cap_in /\ text_in[p + 1] = "NL" /\ text_in[p + 2] = "NL") }

\* C15: for a text longer than C, when a sentence boundary lies within the
\* last 30% of the first C characters (position 0.7 * C included) the result
\* is the text cut at the last such boundary, with no ellipsis; otherwise the
\* result is the first C characters with the ellipsis appended
C15_CutAtLastBoundary ==
    (Truncated /\ Len(text_in) > cap_in) =>
        IF BoundariesInLastPart # {}
        THEN text_out[1] = Strip(SubSeq(text_in, 1, SetMax(BoundariesInLastPart) + 1))
        ELSE text_out[1] = Strip(SubSeq(text_in, 1, cap_in)) \o Ellipsis

-----------------------------------------------------------------------------
(* The concurrent fetches on their own: lines 420-545 from the moment the     *)
(* tasks are created, with the order in which the fetches end kept            *)

\* candidates of the run: a search result that passes the filter, with the
\* title the provider gave it (the same page can be listed under two titles)
Candidates ==
    { [url |-> p.url, title |-> p.title] : p \in { r \in Pages : ~HasSkippedExtension(r) } }
    \cup { [url |-> p.url, title |-> "spain"] : p \in { r \in Pages : r.hq } }

\* lines 420-424 have run: one task per candidate, no request made yet
InitOrder ==
    /\ query \in { q \in Queries : ~IsEmptyQuery(q) }
    /\ opts = [max_results |-> MaxResultsOpt, min_results |-> {},
               min_words |-> DefaultMinWords, min_quality_score |-> DefaultMinQuality,
               adaptive |-> TRUE]
    /\ pc = "gather"
    /\ min_results = EffectiveMinResults(opts)
    /\ target_count = TargetCount(query, opts, EffectiveMinResults(opts))
    /\ news_mode = IsNewsQuery(query)
    /\ spain_mode = IsSpainQuery(query)
    /\ provider = << ProviderRequest(query, opts) >>
    /\ provider_outcome = "results"
    /\ \E cands \in SeqsUpTo(Candidates, MaxProvider) \ { << >> } :
          /\ search_results = [i \in 1..Len(cands) |->
                                 [UrlProps(cands[i].url) EXCEPT !.title = cands[i].title]]
          /\ allowed = [i \in 1..Len(cands) |-> TRUE]
          /\ valid_urls = Take(cands, CandidateLimit(Len(cands), opts, news_mode))
          /\ fetch = [i \in 1..Len(Take(cands, CandidateLimit(Len(cands), opts, news_mode)))
                        |-> NewTask]
    /\ documents = << >>
    /\ doc_src = << >>
    /\ result_docs = << >>
    /\ phase = "none"
    /\ error = ""
    /\ HelpersIdle

\* lines 136-186 under asyncio.gather (line 428): one attempt of the fetch of
\* candidate i; the fetch that ends is the next one in the completion order
FetchAttemptInOrder(i) ==
    /\ pc = "gather"
    /\ ~fetch[i].done
    /\ \E o \in NetOutcomes :
          LET task == AfterAttempt(fetch[i], o)
          IN  /\ fetch' = [fetch EXCEPT ![i] = task]
              /\ completed' = IF task.done THEN Append(completed, i) ELSE completed
    /\ UNCHANGED << query, opts, pc, min_results, target_count, news_mode, spain_mode,
                    provider, provider_outcome, search_results, allowed, valid_urls, documents,
                    doc_src, result_docs, phase, error, policy, text_in, cap_in, text_out >>

NextOrder ==
    \/ \E i \in 1..Len(fetch) : FetchAttemptInOrder(i)
    \/ Aggregate

SpecOrder == InitOrder /\ [][NextOrder]_vars

\* the documents of the run as the candidate list and each candidate's own
\* outcome give them, in the order of the candidate list
DocsByCandidate ==
    LET n == Len(valid_urls)
        out == [i \in 1..n |->
                  ProcessOne(valid_urls[i], fetch[i].result, opts, news_mode, spain_mode)]
        IsDoc(i) == out[i].kind = "doc"
        src == SelectSeq([i \in 1..n |-> i], IsDoc)
    IN  [k \in 1..Len(src) |-> out[src[k]].doc]

\* C22: the returned list, members and order, is what the selection makes of
\* the candidate list and of each candidate's own outcome, whatever the order
\* in which the fetches ended; documents of equal sort key are returned in the
\* order of the candidate list
C22_ResultIndependentOfCompletionOrder ==
    (Returned /\ phase \in { "strict", "relaxed" }) =>
        result_docs = Select(DocsByCandidate, opts, min_results, target_count,
                             news_mode, spain_mode).docs

C22_Witness ==
    /\ Returned /\ completed = << 2, 1 >>
    /\ Len(result_docs) = 2
    /\ result_docs[1].quality_score = result_docs[2].quality_score
    /\ result_docs[1].text = result_docs[2].text
    /\ result_docs[1] # result_docs[2]
    /\ result_docs[1].title = valid_urls[1].title
    /\ result_docs[2].title = valid_urls[2].title

-----------------------------------------------------------------------------
(* The selection on its own: lines 433-545 from the moment every fetch has    *)
(* ended, over more pages, more texts and a second value of min_words         *)

\* the selection reads target_count and min_results, not adaptive: the target
\* is max_results here
SelectOptions ==
    [ max_results : 1..MaxResultsOpt,
      min_results : { {}, { MaxResultsOpt } },
      min_words : { LowMinWords, DefaultMinWords },
      min_quality_score : { DefaultMinQuality },
      adaptive : { FALSE } ]

\* candidates: a page of a high-quality domain and a page of a low-quality
\* domain whose title names a Spanish city; the markup of pages with a text
SelectCandidates ==
    { [url |-> p.url, title |-> p.title] : p \in { r \in Pages : r.hq } \cup MorePages }
SelectHtmls == { h \in Htmls \cup MoreHtmls : ExtractText(h) # << >> }

\* every fetch of the run has ended with markup; gather is about to return
InitSelect ==
    /\ query \in { q \in Queries : ~IsEmptyQuery(q) }
    /\ opts \in SelectOptions
    /\ pc = "gather"
    /\ min_results = EffectiveMinResults(opts)
    /\ target_count = TargetCount(query, opts, EffectiveMinResults(opts))
    /\ news_mode = IsNewsQuery(query)
    /\ spain_mode = IsSpainQuery(query)
    /\ provider = << ProviderRequest(query, opts) >>
    /\ provider_outcome = "results"
    /\ \E cands \in SeqsUpTo(SelectCandidates, MaxDocs) \ { << >> } :
          /\ Len(cands) <= CandidateLimit(Len(cands), opts, news_mode)
          /\ search_results = [i \in 1..Len(cands) |->
                                 [UrlProps(cands[i].url) EXCEPT !.title = cands[i].title]]
          /\ allowed = [i \in 1..Len(cands) |-> TRUE]
          /\ valid_urls = cands
          /\ \E markup \in [1..Len(cands) -> SelectHtmls] :
                fetch = [i \in 1..Len(cands) |->
                           AfterAttempt(NewTask, [kind |-> "ok", html |-> markup[i].id])]
    /\ documents = << >>
    /\ doc_src = << >>
    /\ result_docs = << >>
    /\ phase = "none"
    /\ error = ""
    /\ HelpersIdle

NextSelect == Aggregate

SpecSelect == InitSelect /\ [][NextSelect]_vars

\* the strict filter of the claims: the word and quality thresholds, and
\* regional relevance where the mode requires it
PassesStrict(d) == StrictPass(d, opts) /\ (RegionNewsMode => IsRelevant(d))
PassingStrict == { k \in 1..Len(documents) : PassesStrict(documents[k]) }

\* C23: when at least target_count collected documents pass the strict filter
\* (thresholds, and regional relevance where it is required), the strict
\* return is taken, exactly target_count documents are returned and each of
\* them passes the strict filter
C23_StrictSufficientReturnsStrict ==
    (Returned /\ phase \in { "strict", "relaxed" }
       /\ Cardinality(PassingStrict) >= target_count)
        => /\ phase = "strict"
           /\ Len(result_docs) = target_count
           /\ \A i \in 1..Len(result_docs) : PassesStrict(result_docs[i])

AdmittedAsStated(d) ==
    /\ d.text.words * 10 >= opts.min_words * 8
    /\ d.quality_score >= Max(RelQualityFloor, opts.min_quality_score - RelQualityStep)
    /\ RegionNewsMode => IsRelevant(d)

\* C25: for every min_words and min_quality_score, the relaxed phase admits a
\* document that failed the strict thresholds exactly when it has at least
\* 0.8 * min_words words and a score of at least max(0.15, min_quality_score -
\* 0.1) (and is regionally relevant where required): a returned document
\* below the strict thresholds meets these, and when the relaxed return has
\* fewer than target_count documents, every collected document that meets
\* them is in it
C25_RelaxedAdmitsAsStated ==
    (Returned /\ phase = "relaxed") =>
        /\ \A i \in 1..Len(result_docs) :
              ~StrictPass(result_docs[i], opts) => AdmittedAsStated(result_docs[i])
        /\ Len(result_docs) < target_count =>
              \A k \in 1..Len(documents) :
                  (~StrictPass(documents[k], opts) /\ AdmittedAsStated(documents[k]))
                      => documents[k] \in Range(result_docs)

\* C29 as stated: when the relaxed return is taken, every collected document
\* that passes the strict filter is in the returned list
C29_StrictNeverDisplaced ==
    (Returned /\ phase = "relaxed") =>
        \A k \in PassingStrict : documents[k] \in Range(result_docs)

\* a ranks at least as high as b in the sort of line 539
RanksAtLeast(a, b) ==
    \/ a.quality_score > b.quality_score
    \/ (a.quality_score = b.quality_score /\ a.text.chars >= b.text.chars)

\* C29 amended: when the relaxed return is taken, a collected document that
\* passes the strict filter is left out only when at least target_count (and
\* at least min_results) documents are returned and each of them ranks at
\* least as high by (quality score, text length)
C29_StrictDisplacedOnlyByHigherRanked ==
    (Returned /\ phase = "relaxed") =>
        \A k \in PassingStrict :
            documents[k] \notin Range(result_docs) =>
                /\ Len(result_docs) >= target_count
                /\ Len(result_docs) >= min_results
                /\ \A i \in 1..Len(result_docs) : RanksAtLeast(result_docs[i], documents[k])

C29_Witness ==
    /\ Returned /\ phase = "relaxed" /\ Len(documents) = 3 /\ Len(result_docs) = 2
    /\ Cardinality(PassingStrict) = 1
    /\ \A k \in PassingStrict : documents[k] \notin Range(result_docs)
    /\ \A i \in 1..Len(result_docs) : ~StrictPass(result_docs[i], opts)

-----------------------------------------------------------------------------
(* The fan-out on its own: lines 396-424 for result lists longer than the     *)
(* number of results the provider was asked for                               *)

FanoutOptions ==
    [ max_results : 0..1,
      min_results : { {} },
      min_words : { DefaultMinWords },
      min_quality_score : { DefaultMinQuality },
      adaptive : { TRUE } ]

\* the provider has returned its list; line 396 is next
InitFanout ==
    /\ query \in { q \in Queries : ~IsEmptyQuery(q) }
    /\ opts \in FanoutOptions
    /\ pc = "filter"
    /\ min_results = EffectiveMinResults(opts)
    /\ target_count = TargetCount(query, opts, EffectiveMinResults(opts))
    /\ news_mode = IsNewsQuery(query)
    /\ spain_mode = IsSpainQuery(query)
    /\ provider = << ProviderRequest(query, opts) >>
    /\ provider_outcome = "results"
    /\ search_results \in SeqsUpTo({ p \in Pages : p.press \/ p.ext }, MaxListed) \ { << >> }
    /\ allowed = << >>
    /\ valid_urls = << >>
    /\ fetch = << >>
    /\ documents = << >>
    /\ doc_src = << >>
    /\ result_docs = << >>
    /\ phase = "none"
    /\ error = ""
    /\ HelpersIdle

NextFanout == FilterCandidates

SpecFanout == InitFanout /\ [][NextFanout]_vars

\* C26 as stated: the number of fetches launched is at most 4 * max_results,
\* whatever the number of results the provider returns
C26_FanoutWithinMultiplier ==
    Len(fetch) <= CandidateMultiplier * opts.max_results

\* C26 amended: the number of fetches launched is at most 3 * max_results in
\* general mode and 5 * max_results in time-sensitive mode, and never more
\* than the number of results the provider returned
C26_FanoutWithinModeLimit ==
    /\ Len(fetch) <= Len(search_results)
    /\ news_mode => Len(fetch) <= NewsLimitFactor * opts.max_results
    /\ ~news_mode => Len(fetch) <= GeneralLimitFactor * opts.max_results

C26_Witness ==
    /\ pc = "gather" /\ news_mode /\ opts.max_results = 1
    /\ Len(search_results) = MaxListed
    /\ \A i \in 1..Len(search_results) : allowed[i] /\ ~HasSkippedExtension(search_results[i])
    /\ Len(fetch) = NewsLimitFactor

-----------------------------------------------------------------------------
(* One URL listed several times: lines 420-549 when the provider's result     *)
(* list holds the same URL more than once                                     *)

\* lines 420-424 have run: one task per listing of the URL
InitListings ==
    /\ query \in { q \in Queries : ~IsEmptyQuery(q) }
    /\ opts = [max_results |-> MaxResultsOpt, min_results |-> {},
               min_words |-> DefaultMinWords, min_quality_score |-> DefaultMinQuality,
               adaptive |-> TRUE]
    /\ pc = "gather"
    /\ min_results = EffectiveMinResults(opts)
    /\ target_count = TargetCount(query, opts, EffectiveMinResults(opts))
    /\ news_mode = IsNewsQuery(query)
    /\ spain_mode = IsSpainQuery(query)
    /\ provider = << ProviderRequest(query, opts) >>
    /\ provider_outcome = "results"
    /\ \E n \in 1..MaxListings : \E p \in { r \in Pages : r.hq } :
          /\ n <= CandidateLimit(n, opts, news_mode)
          /\ search_results = [i \in 1..n |-> p]
          /\ allowed = [i \in 1..n |-> TRUE]
          /\ valid_urls = [i \in 1..n |-> [url |-> p.url, title |-> p.title]]
          /\ fetch = [i \in 1..n |-> NewTask]
    /\ documents = << >>
    /\ doc_src = << >>
    /\ result_docs = << >>
    /\ phase = "none"
    /\ error = ""
    /\ HelpersIdle

NextListings ==
    \/ \E i \in 1..Len(fetch) : FetchAttempt(i)
    \/ Aggregate

SpecListings == InitListings /\ [][NextListings]_vars

\* C27 as stated: no URL of a candidate is requested more than 3 times in
\* total in one run
C27_UrlRequestedAtMostThrice ==
    \A i \in 1..Len(fetch) :
        Cardinality(RequestsTo(valid_urls[i].url)) <= StopAfterAttempt

\* C27 amended: there is one call of fetch_html per candidate (per listing
\* of a URL), and it makes at least one and at most 3 requests, also when it
\* fails: a failed candidate is not fetched again
C27_CandidateRequestedAtMostThrice ==
    /\ pc \in { "gather", "returned", "raised" } => Len(fetch) = Len(valid_urls)
    /\ \A i \in 1..Len(fetch) :
          /\ Len(fetch[i].net) <= StopAfterAttempt
          /\ Finished => Len(fetch[i].net) >= 1

C27_Witness ==
    /\ Returned /\ Len(fetch) = MaxListings
    /\ fetch[1].net = << "timeout" >>
    /\ fetch[2].net = << "status" >>
    /\ \A i \in 3..Len(fetch) : fetch[i].net = << "ok" >>
    /\ Len(documents) = MaxListings - 2

-----------------------------------------------------------------------------
(* The provider call on its own: lines 326-394 for every kind of query *)

InitProvider ==
    /\ query \in Queries \cup QueryShapes
    /\ opts \in Options
    /\ NothingDone
    /\ HelpersIdle

NextProvider ==
    \/ RejectEmptyQuery
    \/ Prepare
    \/ SearchRaises
    \/ SearchReturns

SpecProvider == InitProvider /\ [][NextProvider]_vars

\* C28: when the query names no country or region, the text sent to the
\* provider is the caller's query with no region name appended and the region
\* parameter is the global one, in general and in time-sensitive mode
C28_GlobalQuerySentUnchanged ==
    \A i \in 1..Len(provider) :
        ~IsSpainQuery(query) =>
            /\ provider[i].text = query.text
            /\ ~provider[i].spain_appended
            /\ provider[i].region = "wt-wt"

====
